---- MODULE Spec2Model ----
(***************************************************************************)
(* A model of telegram-speaker's playback core (src/modules/services.py):  *)
(* the shared CastConnection, the AudioServer and play_on_googlecast.      *)
(*                                                                         *)
(* Every thread of the executor pool is a process t with a program         *)
(* counter pc[t]; a label "c48" is line 48 of CastConnection.connect,      *)
(* "d82" line 82 of disconnect, "s124" line 124 of AudioServer.start,      *)
(* "p150" line 150 of play_on_googlecast.  Calls into pychromecast, the    *)
(* socket layer and the file system either return or raise; what they      *)
(* return (devices found, probe result, player status) is chosen by the    *)
(* environment.                                                            *)
(***************************************************************************)
EXTENDS Integers, Sequences, FiniteSets, TLC

VARIABLES
    cast,        \* cast_connection.cast: a handle, or NoCast
    browser,     \* cast_connection.browser: "None" or "browser"
    connected,   \* cast_connection.connected
    device_id,   \* cast_connection.device_id: a device id or "None"
    live,        \* handles whose session was established and not released
    cwd,         \* the process working directory
    pc,          \* pc[t]: where thread t is
    stk,         \* stk[t]: the call sites thread t returns to, innermost first
    arg,         \* arg[t]: the arguments of the call thread t is in
    pl,          \* pl[t]: the locals of play_on_googlecast and its AudioServer
    gh,          \* gh[t]: history of the call in progress (what was done)
    rv,          \* rv[t]: the call thread t has just completed, and its result
    last,        \* last[t]: the device of thread t's previous call, when that
                 \* call was a connect that returned True ("None" otherwise)
    budget,      \* budget[t]: how many more calls thread t is handed
    bot          \* the bot's side: config.selected_device, config.yml, the
                 \* temporary files on disk, the locals of the handler

vars ==
    <<cast, browser, connected, device_id, live, cwd,
      pc, stk, arg, pl, gh, rv, last, budget, bot>>
conn == <<cast, browser, connected, device_id, live>>

\* ------------------------------------------------------------------ bounds
MaxHandles == 2
NumThreads == 2
MaxConcCalls == 1

\* --------------------------------------------------------------- constants
NoCast == 0
MinFileSize == 100
PollTimeout == 60
GracePeriod == 5
PollSleepTenths == 3

Threads == 1..NumThreads
Main == 1
Handles == 1..MaxHandles

GOOGLE_CAST == "DeviceType.GOOGLE_CAST"
MACOS_SAY == "DeviceType.MACOS_SAY"
CastIds == {"dev-1", "dev-2"}
Devices ==
    {[id |-> i, device_type |-> GOOGLE_CAST] : i \in CastIds}
        \cup {[id |-> "macos_say", device_type |-> MACOS_SAY]}
NoDevice == [id |-> "None", device_type |-> "None"]

\* An audio path: whether the file exists, and its size in bytes.
Files ==
    {[exists |-> FALSE, size |-> 0]}
        \cup {[exists |-> TRUE, size |-> s] : s \in {50, 99, 100}}
NoFile == [exists |-> FALSE, size |-> 0]

\* config.py line 22.
ALLOWED_USERS == {1212454889}

\* update.effective_user: the allowed user, another user, or None (NoUser),
\* whose user_id is None (handlers.py line 23).
Stranger == 1212454890
NoUser == 0
EffectiveUsers == ALLOWED_USERS \cup {Stranger, NoUser}

\* query.data of a pressed button: "cancel_setup", "confirm_test", or
\* "select_" followed by a device id (handlers.py lines 229 and 233).
QueryData ==
    {[prefix |-> "cancel_setup", id |-> ""],
     [prefix |-> "confirm_test", id |-> ""]}
        \cup {[prefix |-> "select_", id |-> i] :
                 i \in CastIds \cup {"macos_say"}}
NoData == [prefix |-> "None", id |-> ""]

NoArgs ==
    [op |-> "none", dev |-> NoDevice, file |-> NoFile, user |-> NoUser,
     data |-> NoData]

HomeDir == "home"
AudioDir == "audio"

\* A read of mc.status: player_state and idle_reason ("None": absent).
Observations ==
    {[state |-> "PLAYING", idle_reason |-> "None"],
     [state |-> "BUFFERING", idle_reason |-> "None"],
     [state |-> "None", idle_reason |-> "None"],
     [state |-> "IDLE", idle_reason |-> "None"],
     [state |-> "IDLE", idle_reason |-> "FINISHED"],
     [state |-> "IDLE", idle_reason |-> "INTERRUPTED"],
     [state |-> "IDLE", idle_reason |-> "ERROR"]}

\* ------------------------------------------------------------------ locals
PlayLocals0 ==
    [cast |-> NoCast, used_cached |-> FALSE, server |-> "None",
     httpd |-> "none", original_dir |-> "None",
     state |-> "None", idle_reason |-> "None",
     played |-> FALSE, elapsed |-> 0, result |-> "None"]

History0 ==
    [how |-> "none", plays |-> 0, stops |-> 0, lookups |-> 0,
     waited |-> FALSE, settle_before |-> FALSE, error_passed |-> FALSE,
     probe |-> "none", cached |-> "unknown", connects |-> 0,
     entry_cwd |-> "None", success_passed |-> FALSE, grace_passed |-> FALSE,
     settle_after |-> FALSE, verified |-> FALSE, devices |-> {},
     restored |-> FALSE, did |-> {},
     entry_cast |-> NoCast, entry_device |-> "None", entry_live |-> FALSE]

NoCall == [op |-> "none", ret |-> "None"]

Min(S) == CHOOSE x \in S : \A y \in S : x <= y

\* Handle ids no object refers to any more: a discovery makes new objects.
InUse == live \cup {cast} \cup {pl[t].cast : t \in Threads}
FreshHandles == Handles \ InUse

\* A thread with a budget above MaxConcCalls is handed calls without end.
Unlimited == MaxConcCalls + 1
Spend(t) ==
    budget' = [budget EXCEPT ![t] = IF @ = Unlimited THEN @ ELSE @ - 1]

\* The history of a call that begins: the connection state it finds.
AtEntry ==
    [History0 EXCEPT !.entry_cast = cast, !.entry_device = device_id,
                     !.entry_live = (cast \in live), !.entry_cwd = cwd]

\* ------------------------------------------------ Device and Config records

\* A Device as models.py lines 14-21 declares it; "None" stands for None.
DeviceRecords ==
    [id : CastIds \cup {"macos_say"}, name : {"Speaker"},
     address : {"None", "10.0.0.5"}, device_type : {GOOGLE_CAST, MACOS_SAY}]

\* config.selected_device when it is None (config.py line 33).
NoDeviceRecord ==
    [id |-> "None", name |-> "None", address |-> "None", device_type |-> "None"]

\* DeviceType.value, models.py lines 10-11.
DeviceTypeValue(e) ==
    CASE e = GOOGLE_CAST -> "googlecast"
      [] e = MACOS_SAY -> "macos_say"
      [] OTHER -> "AttributeError"

\* DeviceType(value), models.py lines 10-11 and 39: the member with that
\* value.
DeviceTypeOf(v) ==
    CASE v = "googlecast" -> GOOGLE_CAST
      [] v = "macos_say" -> MACOS_SAY
      [] OTHER -> "ValueError"

\* Device.to_dict, models.py lines 23-30.
to_dict(d) ==
    [id |-> d.id, name |-> d.name, address |-> d.address,
     device_type |-> DeviceTypeValue(d.device_type)]

\* models.py lines 32-40 with the address not read from the record.
from_dict_NoAddress(data) ==
    [id |-> data.id, name |-> data.name, address |-> "None",
     device_type |-> DeviceTypeOf(data.device_type)]

\* Device.from_dict, models.py lines 32-40.
from_dict(data) ==
    [id |-> data.id, name |-> data.name, address |-> data.address,
     device_type |-> DeviceTypeOf(data.device_type)]

\* yaml.dump of a flat mapping (config.py line 54): None is written as
\* null, a string as itself.
YamlDump(m) == [k \in DOMAIN m |-> IF m[k] = "None" THEN "null" ELSE m[k]]

\* yaml.safe_load of such a mapping (config.py line 40).
YamlLoad(y) == [k \in DOMAIN y |-> IF y[k] = "null" THEN "None" ELSE y[k]]

NullMap ==
    [id |-> "null", name |-> "null", address |-> "null", device_type |-> "null"]

\* config.yml: absent, or holding "selected_device: null", or holding the
\* mapping of a device under selected_device.
NoConfigFile == [exists |-> FALSE, null |-> TRUE, map |-> NullMap]

\* Config.save, config.py lines 46-54: the file written for a selection.
Config_save(sel) ==
    IF sel = NoDeviceRecord
    THEN [exists |-> TRUE, null |-> TRUE, map |-> NullMap]
    ELSE [exists |-> TRUE, null |-> FALSE, map |-> YamlDump(to_dict(sel))]

\* Config.load, config.py lines 36-44: the selection after loading the
\* file over the selection sel.
Config_load(sel, file) ==
    IF file.exists /\ ~file.null THEN from_dict(YamlLoad(file.map)) ELSE sel

\* The files Config.save can have left, and no file.
ConfigFiles ==
    {NoConfigFile} \cup {Config_save(d) : d \in DeviceRecords \cup {NoDeviceRecord}}

\* The locals of a handler before it runs.
\* ProgressAnimation.__init__, handlers.py lines 54-58; tasks are the
\* _animate tasks created for this object that have not ended, each named
\* by its phase.
ProgressAnimation_init == [running |-> FALSE, task |-> "None", tasks |-> {}]

\* ProgressAnimation.start, lines 60-63.
ProgressAnimation_start(anim, phase) ==
    [running |-> TRUE, task |-> phase, tasks |-> anim.tasks \cup {phase}]

\* ProgressAnimation.stop, lines 65-73: the task is cancelled and awaited;
\* CancelledError is no Exception, so the handler of line 90 lets it end
\* the task.
ProgressAnimation_stop(anim) ==
    [anim EXCEPT !.running = FALSE,
                 !.tasks = IF anim.task # "None" THEN @ \ {anim.task} ELSE @]

\* ProgressAnimation.switch_to_playing, lines 75-79.
ProgressAnimation_switch_to_playing(anim) ==
    ProgressAnimation_start(ProgressAnimation_stop(anim), "play")

HandlerLocals0 ==
    [tmp_path |-> "None", mp3_path |-> "None", tts_success |-> "None",
     anim |-> ProgressAnimation_init]

\* The bot's side when the process starts on the file f: Config.__init__
\* (config.py lines 29-34) has loaded it; bot.saved and bot.synced record
\* the selection of the last save and whether a start has loaded it since;
\* context.user_data has no "setup_devices" yet (handlers.py line 262).
BotStart(f, tmp) ==
    [selected |-> Config_load(NoDeviceRecord, f), cfile |-> f,
     saved |-> NoDeviceRecord, synced |-> "none",
     setup_devices |-> <<>>, tmp |-> tmp, h |-> HandlerLocals0]

Bot0 == BotStart(NoConfigFile, {})

\* --------------------------------------------------- CastConnection (28-105)

\* __init__, lines 31-35, and the module's state at import.
Init ==
    /\ cast = NoCast
    /\ browser = "None"
    /\ connected = FALSE
    /\ device_id = "None"
    /\ live = {}
    /\ cwd = HomeDir
    /\ pc = [t \in Threads |-> "idle"]
    /\ stk = [t \in Threads |-> <<>>]
    /\ arg = [t \in Threads |-> NoArgs]
    /\ pl = [t \in Threads |-> PlayLocals0]
    /\ gh = [t \in Threads |-> History0]
    /\ rv = [t \in Threads |-> NoCall]
    /\ last = [t \in Threads |-> "None"]
    /\ budget = [t \in Threads |-> Unlimited]
    /\ bot = Bot0

\* Line 94: the probe at line 97 is made only past this test.
Probed == cast # NoCast /\ connected

\* Lines 92-99 without the probe: the cached flag is the answer.
is_connected_Cached(probe) == cast # NoCast /\ connected

\* is_connected, lines 92-99: probe is what cast.socket_client.is_connected
\* does: "up", "down", or "raise".
is_connected(probe) ==
    IF cast = NoCast \/ ~connected THEN FALSE ELSE probe = "up"

\* Lines 101-105 returning the stored handle unprobed.
get_cast_Stored(probe) == cast

\* Lines 101-105 with the flag read in place of the is_connected() call.
get_cast_Flag(probe) == IF connected THEN cast ELSE NoCast

\* get_cast, lines 101-105.
get_cast(probe) == IF is_connected(probe) THEN cast ELSE NoCast

Probes == {"up", "down", "raise"}

\* Line 43 with the comparison turned round: the old connection is dropped
\* only when it is to the device asked for.
SwitchNeeded_Same(d) == device_id # "None" /\ device_id = d.id

\* Line 43: an existing connection to a different device.
SwitchNeeded(d) == device_id # "None" /\ device_id # d.id

\* Where a top-level call of thread t ends: back in the caller.
Finish(t, op, ret) ==
    /\ pc' = [pc EXCEPT ![t] = "done"]
    /\ stk' = [stk EXCEPT ![t] = <<>>]
    /\ rv' = [rv EXCEPT ![t] = [op |-> op, ret |-> ret]]

\* connect returns v ("True" or "False") to the site it was called from:
\* the executor (a top-level call) or line 166 of play_on_googlecast.
ConnectReturns(t, s, v) ==
    IF s = <<>>
    THEN Finish(t, "connect", v)
    ELSE /\ pc' = [pc EXCEPT ![t] = IF v = "True" THEN "p169" ELSE "p167"]
         /\ stk' = [stk EXCEPT ![t] = Tail(s)]
         /\ rv' = rv

\* connect called from outside the try of play_on_googlecast: what it raises
\* goes to the executor.
ConnectRaises_Escapes(t, s) == Finish(t, arg[t].op, "raised")

\* connect raises to the site it was called from: line 166 is inside the
\* try of play_on_googlecast, a top-level call raises to the executor.
ConnectRaises(t, s) ==
    IF s = <<>>
    THEN Finish(t, "connect", "raised")
    ELSE /\ pc' = [pc EXCEPT ![t] = "p257"]
         /\ stk' = [stk EXCEPT ![t] = Tail(s)]
         /\ rv' = rv

\* disconnect returns to the site it was called from.
DisconnectReturns(t) ==
    LET s == stk[t] IN
    IF s = <<>> THEN Finish(t, "disconnect", "None")
    ELSE IF Head(s) = "c44"
    THEN /\ pc' = [pc EXCEPT ![t] = "c48"]
         /\ stk' = [stk EXCEPT ![t] = Tail(s)]
         /\ rv' = rv
    ELSE ConnectReturns(t, Tail(s), "False")

\* disconnect raises: line 58 is inside connect's try (the handler at line 75
\* runs), lines 44 and 77 are not (connect raises).
DisconnectRaises(t) ==
    LET s == stk[t] IN
    IF s = <<>> THEN Finish(t, "disconnect", "raised")
    ELSE IF Head(s) = "c58"
    THEN /\ pc' = [pc EXCEPT ![t] = "c76"]
         /\ stk' = [stk EXCEPT ![t] = Tail(s)]
         /\ rv' = rv
    ELSE ConnectRaises(t, Tail(s))

\* The executor runs cast_connection.connect(device) (handlers.py line 163).
CallConnect(t, d) ==
    /\ pc[t] = "idle"
    /\ budget[t] > 0
    /\ pc' = [pc EXCEPT ![t] = "c39"]
    /\ stk' = [stk EXCEPT ![t] = <<>>]
    /\ arg' = [arg EXCEPT ![t] = [op |-> "connect", dev |-> d, file |-> NoFile]]
    /\ pl' = [pl EXCEPT ![t] = PlayLocals0]
    /\ gh' = [gh EXCEPT ![t] = AtEntry]
    /\ UNCHANGED <<conn, cwd, rv, last, bot>>
    /\ Spend(t)

\* Line 39 letting every device through.
IsCastDevice_Any(d) == TRUE

\* Line 39: the device is a Google Cast one.
IsCastDevice(d) == d.device_type = GOOGLE_CAST

\* connect, lines 39-40.
connect_check_type(t) ==
    /\ pc[t] = "c39"
    /\ IF ~IsCastDevice(arg[t].dev)
       THEN ConnectReturns(t, stk[t], "False")
       ELSE /\ pc' = [pc EXCEPT ![t] = "c43"]
            /\ UNCHANGED <<stk, rv>>
    /\ UNCHANGED <<conn, cwd, arg, pl, gh, last, budget, bot>>

\* connect, lines 42-44.
connect_switch(t) ==
    /\ pc[t] = "c43"
    /\ IF SwitchNeeded(arg[t].dev)
       THEN /\ pc' = [pc EXCEPT ![t] = "d82"]
            /\ stk' = [stk EXCEPT ![t] = <<"c44">> \o @]
       ELSE /\ pc' = [pc EXCEPT ![t] = "c48"]
            /\ UNCHANGED stk
    /\ UNCHANGED <<conn, cwd, arg, pl, gh, rv, last, budget, bot>>

\* connect, lines 48-54: the discovery and the lookup of device.id among the
\* chromecasts found; every Chromecast returned is a new object.
connect_discover(t) ==
    /\ pc[t] = "c48"
    /\ \/ /\ pc' = [pc EXCEPT ![t] = "c76"]          \* get_chromecasts raises
          /\ UNCHANGED <<conn, gh>>
       \/ /\ FreshHandles # {}
          /\ \E found \in SUBSET CastIds :
                /\ browser' = "browser"
                /\ cast' = IF arg[t].dev.id \in found
                           THEN Min(FreshHandles) ELSE NoCast
          /\ gh' = [gh EXCEPT ![t].lookups = 1]
          /\ pc' = [pc EXCEPT ![t] = "c56"]
          /\ UNCHANGED <<connected, device_id, live>>
    /\ UNCHANGED <<cwd, stk, arg, pl, rv, last, budget, bot>>

\* connect, lines 56-59.
connect_not_found(t) ==
    /\ pc[t] = "c56"
    /\ IF cast = NoCast
       THEN /\ pc' = [pc EXCEPT ![t] = "d82"]
            /\ stk' = [stk EXCEPT ![t] = <<"c58">> \o @]
       ELSE /\ pc' = [pc EXCEPT ![t] = "c61"]
            /\ UNCHANGED stk
    /\ UNCHANGED <<conn, cwd, arg, pl, gh, rv, last, budget, bot>>

\* connect, lines 61-62: the session is established when wait returns.
connect_wait(t) ==
    /\ pc[t] = "c61"
    /\ \/ /\ pc' = [pc EXCEPT ![t] = "c76"]
          /\ UNCHANGED live
       \/ /\ cast # NoCast
          /\ live' = live \cup {cast}
          /\ pc' = [pc EXCEPT ![t] = "c64"]
    /\ UNCHANGED <<cast, browser, connected, device_id, cwd, stk, arg, pl, gh, rv, last, budget, bot>>

\* connect, lines 64-66.
connect_commit(t) ==
    /\ pc[t] = "c64"
    /\ device_id' = arg[t].dev.id
    /\ connected' = TRUE
    /\ pc' = [pc EXCEPT ![t] = "c69"]
    /\ UNCHANGED <<cast, browser, live, cwd, stk, arg, pl, gh, rv, last, budget, bot>>

\* connect, lines 68-73.
connect_stop_discovery(t) ==
    /\ pc[t] = "c69"
    /\ \/ /\ browser # "None"                         \* stop_discovery raises
          /\ pc' = [pc EXCEPT ![t] = "c76"]
          /\ UNCHANGED <<browser, stk, rv>>
       \/ /\ browser' = "None"
          /\ ConnectReturns(t, stk[t], "True")
    /\ UNCHANGED <<cast, connected, device_id, live, cwd, arg, pl, gh, last, budget, bot>>

\* connect, lines 75-78.
connect_except(t) ==
    /\ pc[t] = "c76"
    /\ pc' = [pc EXCEPT ![t] = "d82"]
    /\ stk' = [stk EXCEPT ![t] = <<"c77">> \o @]
    /\ UNCHANGED <<conn, cwd, arg, pl, gh, rv, last, budget, bot>>

\* A caller runs cast_connection.disconnect().
CallDisconnect(t) ==
    /\ pc[t] = "idle"
    /\ budget[t] > 0
    /\ pc' = [pc EXCEPT ![t] = "d82"]
    /\ stk' = [stk EXCEPT ![t] = <<>>]
    /\ arg' = [arg EXCEPT ![t] = [NoArgs EXCEPT !.op = "disconnect"]]
    /\ pl' = [pl EXCEPT ![t] = PlayLocals0]
    /\ gh' = [gh EXCEPT ![t] = AtEntry]
    /\ UNCHANGED <<conn, cwd, rv, last, bot>>
    /\ Spend(t)

\* disconnect, lines 82-84.
disconnect_browser(t) ==
    /\ pc[t] = "d82"
    /\ \/ /\ browser # "None"                         \* stop_discovery raises
          /\ DisconnectRaises(t)
          /\ UNCHANGED browser
       \/ /\ browser' = "None"
          /\ pc' = [pc EXCEPT ![t] = "d85"]
          /\ UNCHANGED <<stk, rv>>
    /\ UNCHANGED <<cast, connected, device_id, live, cwd, arg, pl, gh, last, budget, bot>>

\* disconnect, lines 85-86.
disconnect_cast(t) ==
    /\ pc[t] = "d85"
    /\ \/ /\ cast # NoCast                            \* cast.disconnect raises
          /\ DisconnectRaises(t)
          /\ UNCHANGED live
       \/ /\ live' = live \ {cast}
          /\ pc' = [pc EXCEPT ![t] = "d87"]
          /\ UNCHANGED <<stk, rv>>
    /\ UNCHANGED <<cast, browser, connected, device_id, cwd, arg, pl, gh, last, budget, bot>>

\* disconnect, lines 87-90.
disconnect_reset(t) ==
    /\ pc[t] = "d87"
    /\ cast' = NoCast
    /\ connected' = FALSE
    /\ device_id' = "None"
    /\ DisconnectReturns(t)
    /\ UNCHANGED <<browser, live, cwd, arg, pl, gh, last, budget, bot>>

\* The event loop calls cast_connection.is_connected() (handlers.py line 154).
CallIsConnected(t) ==
    /\ pc[t] = "idle"
    /\ budget[t] > 0
    /\ \E probe \in Probes :
          rv' = [rv EXCEPT ![t] =
                    [op |-> "is_connected",
                     ret |-> IF is_connected(probe) THEN "True" ELSE "False"]]
          /\ gh' = [gh EXCEPT ![t].probe = IF Probed THEN probe ELSE "none"]
    /\ arg' = [arg EXCEPT ![t] = [NoArgs EXCEPT !.op = "is_connected"]]
    /\ pc' = [pc EXCEPT ![t] = "done"]
    /\ UNCHANGED <<conn, cwd, stk, pl, last, bot>>
    /\ Spend(t)

\* The event loop calls cast_connection.get_cast().
CallGetCast(t) ==
    /\ pc[t] = "idle"
    /\ budget[t] > 0
    /\ \E probe \in Probes :
          /\ rv' = [rv EXCEPT ![t] =
                       [op |-> "get_cast",
                        ret |-> IF get_cast(probe) # NoCast THEN "handle" ELSE "None"]]
          /\ pl' = [pl EXCEPT ![t].cast = get_cast(probe)]
          /\ gh' = [gh EXCEPT ![t].probe = IF Probed THEN probe ELSE "none"]
    /\ arg' = [arg EXCEPT ![t] = [NoArgs EXCEPT !.op = "get_cast"]]
    /\ pc' = [pc EXCEPT ![t] = "done"]
    /\ UNCHANGED <<conn, cwd, stk, last, bot>>
    /\ Spend(t)

\* ------------------------------------------------ play_on_googlecast (144-265)

\* Lines 150-156 without the size test of line 154.
FileOK_ExistsOnly(f) == f.exists

\* Lines 150-156: the file exists and holds at least 100 bytes.
FileOK(f) == f.exists /\ ~(f.size < MinFileSize)

\* Line 200 with the reason misspelt: no observation counts as finished.
IsFinished_Misspelt(o) == o.state = "IDLE" /\ o.idle_reason = "FINISH"

\* Line 200 (and 212, 223, 242): IDLE with reason FINISHED.
IsFinished(o) == o.state = "IDLE" /\ o.idle_reason = "FINISHED"

\* Lines 226 and 245 with "not in" written as "in": FINISHED and INTERRUPTED
\* are taken for errors and the error reasons are passed over.
IsErrorReason_Inverted(r) == r # "None" /\ r \in {"FINISHED", "INTERRUPTED"}

\* Lines 226 and 245: a reason is present and is not FINISHED or INTERRUPTED.
IsErrorReason(r) == r # "None" /\ r \notin {"FINISHED", "INTERRUPTED"}

\* An observation of IDLE with an idle reason outside {FINISHED, INTERRUPTED}.
IsError(o) == o.state = "IDLE" /\ o.idle_reason \notin {"None", "FINISHED", "INTERRUPTED"}

\* Line 235 as "while True".
WithinTimeout_Forever(e) == TRUE

\* Line 235: time.time() - start_time < timeout, in tenths of a second.
WithinTimeout(e) == e < PollTimeout * 10

\* Line 248 with the five seconds taken for five tenths.
GraceOver_Tenths(e) == e > GracePeriod

\* Line 248: time.time() - start_time > 5, in tenths of a second.
GraceOver(e) == e > GracePeriod * 10

\* Lines 254-255 returning False.
AfterLoopResult_False == "False"

\* Lines 254-255: what the call returns once the while loop is left, by a
\* break or because its condition became false.
AfterLoopResult == "True"

\* The result is determined; control goes to the finally clause (line 260).
Determine(t, res, how, o) ==
    /\ pl' = [pl EXCEPT ![t].result = res,
                        ![t].state = o.state, ![t].idle_reason = o.idle_reason]
    /\ gh' = [gh EXCEPT ![t].how = how]
    /\ pc' = [pc EXCEPT ![t] = "p260"]

\* A try with a finally clause and no handler: control goes to line 260 with
\* no result determined.
Raise_NoHandler(t) ==
    /\ pc' = [pc EXCEPT ![t] = "p260"]
    /\ UNCHANGED <<pl, gh>>

\* A library call inside the try raises: the handler at line 257 runs.
Raise(t) ==
    /\ pc' = [pc EXCEPT ![t] = "p257"]
    /\ UNCHANGED <<pl, gh>>

\* The executor runs play_on_googlecast(device, audio_path); lines 146-147.
CallPlay(t, d, f) ==
    /\ pc[t] = "idle"
    /\ budget[t] > 0
    /\ pc' = [pc EXCEPT ![t] = "p150"]
    /\ stk' = [stk EXCEPT ![t] = <<>>]
    /\ arg' = [arg EXCEPT ![t] = [op |-> "play_on_googlecast", dev |-> d, file |-> f]]
    /\ pl' = [pl EXCEPT ![t] = PlayLocals0]
    /\ gh' = [gh EXCEPT ![t] = AtEntry]
    /\ UNCHANGED <<conn, cwd, rv, last, bot>>
    /\ Spend(t)

NoObs == [state |-> "None", idle_reason |-> "None"]

\* Lines 149-157: exists() or stat() raises, or the file is tested.
play_precondition(t) ==
    /\ pc[t] = "p150"
    /\ \/ Raise(t)
       \/ IF FileOK(arg[t].file)
          THEN /\ pc' = [pc EXCEPT ![t] = "p160"]
               /\ UNCHANGED <<pl, gh>>
          ELSE Determine(t, "False", "precondition", NoObs)
    /\ UNCHANGED <<conn, cwd, stk, arg, rv, last, budget, bot>>

\* Line 161 without the comparison of the device ids.
CachedUsable_AnyDevice(c, d) == c # NoCast

\* Line 161: get_cast() gave a handle and it belongs to the device.
CachedUsable(c, d) == c # NoCast /\ device_id = d.id

\* Lines 159-166: the cached handle is used when the probe finds it alive
\* and it belongs to the device; otherwise connect is called.  gh.cached
\* records what the probe and the stored device id were, gh.connects the
\* call of connect.
play_acquire(t) ==
    /\ pc[t] = "p160"
    /\ \E probe \in Probes :
          LET c == get_cast(probe)
              found == IF Probed /\ probe = "up" /\ device_id = arg[t].dev.id
                       THEN "usable" ELSE "unusable"
          IN
          IF CachedUsable(c, arg[t].dev)
          THEN /\ pl' = [pl EXCEPT ![t].cast = c, ![t].used_cached = TRUE]
               /\ gh' = [gh EXCEPT ![t].cached = found,
                                   ![t].verified = (found = "usable")]
               /\ pc' = [pc EXCEPT ![t] = "p175"]
               /\ UNCHANGED stk
          ELSE /\ pl' = [pl EXCEPT ![t].cast = c]
               /\ gh' = [gh EXCEPT ![t].cached = found, ![t].connects = 1]
               /\ pc' = [pc EXCEPT ![t] = "c39"]
               /\ stk' = [stk EXCEPT ![t] = <<"p166">>]
    /\ UNCHANGED <<conn, cwd, arg, rv, last, budget, bot>>

\* Lines 166-168: connect returned False.
play_connect_failed(t) ==
    /\ pc[t] = "p167"
    /\ Determine(t, "False", "connect_failed", NoObs)
    /\ UNCHANGED <<conn, cwd, stk, arg, rv, last, budget, bot>>

\* Lines 169-172; gh.verified records that the probe of this call was up
\* and the stored device id was the requested one.
play_after_connect(t) ==
    /\ pc[t] = "p169"
    /\ \E probe \in Probes :
          LET c == get_cast(probe) IN
          IF c = NoCast
          THEN Determine(t, "False", "no_cast", NoObs)
          ELSE /\ pl' = [pl EXCEPT ![t].cast = c]
               /\ pc' = [pc EXCEPT ![t] = "p175"]
               /\ gh' = [gh EXCEPT ![t].verified =
                            (/\ Probed /\ probe = "up"
                             /\ device_id = arg[t].dev.id)]
    /\ UNCHANGED <<conn, cwd, stk, arg, rv, last, budget, bot>>

\* Line 175 and AudioServer.start, lines 124-125: chdir raises when the
\* directory is gone.
AudioServer_start_chdir(t) ==
    /\ pc[t] = "p175"
    /\ \/ /\ pl' = [pl EXCEPT ![t].server = "AudioServer",
                              ![t].original_dir = cwd]
          /\ pc' = [pc EXCEPT ![t] = "p257"]
          /\ UNCHANGED cwd
       \/ /\ pl' = [pl EXCEPT ![t].server = "AudioServer",
                              ![t].original_dir = cwd]
          /\ cwd' = AudioDir
          /\ pc' = [pc EXCEPT ![t] = "s127"]
    /\ UNCHANGED <<conn, stk, arg, gh, rv, last, budget, bot>>

\* AudioServer.start, lines 127-134: the bind raises, or the listener is
\* bound and its thread serves.
AudioServer_start_listen(t) ==
    /\ pc[t] = "s127"
    /\ \/ Raise(t)
       \/ /\ pl' = [pl EXCEPT ![t].httpd = "serving"]
          /\ pc' = [pc EXCEPT ![t] = "p178"]
          /\ UNCHANGED gh
    /\ UNCHANGED <<conn, cwd, stk, arg, rv, last, budget, bot>>

\* Lines 185-186 without the test: the second of sleep is always taken.
SettleBefore_Always(used_cached) == TRUE

\* Lines 185-186: the second of sleep is taken when the handle is not the
\* cached one.
SettleBefore(used_cached) == ~used_cached

\* Lines 178-186: get_local_ip raises without a route; the extra second
\* of sleep is taken for a connection made in this call.
play_prepare(t) ==
    /\ pc[t] = "p178"
    /\ \/ Raise(t)
       \/ /\ gh' = [gh EXCEPT ![t].settle_before = SettleBefore(pl[t].used_cached)]
          /\ pc' = [pc EXCEPT ![t] = "p190"]
          /\ UNCHANGED pl
    /\ UNCHANGED <<conn, cwd, stk, arg, rv, last, budget, bot>>

\* Lines 188-193: the play command, then half a second of sleep whatever
\* the connection.
play_media(t) ==
    /\ pc[t] = "p190"
    /\ \/ Raise(t)
       \/ /\ gh' = [gh EXCEPT ![t].plays = @ + 1, ![t].settle_after = TRUE]
          /\ pc' = [pc EXCEPT ![t] = "p196"]
          /\ UNCHANGED pl
    /\ UNCHANGED <<conn, cwd, stk, arg, rv, last, budget, bot>>

\* Lines 195-202.
play_initial_check(t) ==
    /\ pc[t] = "p196"
    /\ \/ Raise(t)
       \/ \E o \in Observations :
             IF IsFinished(o)
             THEN Determine(t, "True", "initial_finished", o)
             ELSE /\ pl' = [pl EXCEPT ![t].state = o.state,
                                      ![t].idle_reason = o.idle_reason]
                  /\ UNCHANGED gh
                  /\ pc' = [pc EXCEPT ![t] = "p206"]
    /\ UNCHANGED <<conn, cwd, stk, arg, rv, last, budget, bot>>

\* Lines 204-208 with a handler that sends the play command again.
play_block_until_active_Resend(t) ==
    /\ pc[t] = "p206"
    /\ \/ pc' = [pc EXCEPT ![t] = "p190"]
       \/ pc' = [pc EXCEPT ![t] = "p217"]
    /\ gh' = [gh EXCEPT ![t].waited = TRUE]
    /\ UNCHANGED <<conn, cwd, stk, arg, pl, rv, last, budget, bot>>

\* Lines 204-208: block_until_active returns, or raises into line 207.
play_block_until_active(t) ==
    /\ pc[t] = "p206"
    /\ \/ pc' = [pc EXCEPT ![t] = "p210"]
       \/ pc' = [pc EXCEPT ![t] = "p217"]
    /\ gh' = [gh EXCEPT ![t].waited = TRUE]
    /\ UNCHANGED <<conn, cwd, stk, arg, pl, rv, last, budget, bot>>

\* Lines 209-214.
play_recheck(t) ==
    /\ pc[t] = "p210"
    /\ \/ Raise(t)
       \/ \E o \in Observations :
             IF IsFinished(o)
             THEN Determine(t, "True", "wait_finished", o)
             ELSE /\ pl' = [pl EXCEPT ![t].state = o.state,
                                      ![t].idle_reason = o.idle_reason]
                  /\ UNCHANGED gh
                  /\ pc' = [pc EXCEPT ![t] = "p217"]
    /\ UNCHANGED <<conn, cwd, stk, arg, rv, last, budget, bot>>

\* Lines 216-233.
play_classify(t) ==
    /\ pc[t] = "p217"
    /\ \/ Raise(t)
       \/ \E o \in Observations :
             IF o.state = "IDLE" /\ o.idle_reason = "FINISHED"
             THEN Determine(t, "True", "classify_finished", o)
             ELSE IF o.state = "IDLE" /\ IsErrorReason(o.idle_reason)
             THEN Determine(t, "False", "classify_error", o)
             ELSE /\ pl' = [pl EXCEPT ![t].state = o.state,
                                      ![t].idle_reason = o.idle_reason,
                                      ![t].elapsed = 0, ![t].played = FALSE]
                  /\ gh' = [gh EXCEPT ![t].error_passed = IsError(o)]
                  /\ pc' = [pc EXCEPT ![t] = "p235"]
    /\ UNCHANGED <<conn, cwd, stk, arg, rv, last, budget, bot>>

\* One pass of the while loop, lines 235-252, or its end by timeout.  state
\* and idle_reason are read again before any use in the next pass, so they
\* are kept only when the pass leaves the loop; gh.error_passed records a
\* pass that slept on an error observation made before any PLAYING one,
\* gh.success_passed one that slept on IDLE/FINISHED or on IDLE after a
\* PLAYING observation, gh.grace_passed one that slept on a plain IDLE
\* more than five seconds in.
play_poll(t) ==
    /\ pc[t] = "p235"
    /\ IF ~WithinTimeout(pl[t].elapsed)
       THEN Determine(t, AfterLoopResult, "timeout",
                      [state |-> pl[t].state, idle_reason |-> pl[t].idle_reason])
       ELSE \/ Raise(t)
            \/ \E o \in Observations :
                 LET e == pl[t].elapsed
                     sleep == /\ pl' = [pl EXCEPT ![t].state = "stale",
                                           ![t].idle_reason = "stale",
                                           ![t].played = @ \/ o.state = "PLAYING",
                                           ![t].elapsed = e + PollSleepTenths]
                              /\ gh' = [gh EXCEPT
                                   ![t].error_passed =
                                       @ \/ (~pl[t].played /\ IsError(o)),
                                   ![t].success_passed =
                                       @ \/ (/\ o.state = "IDLE"
                                             /\ \/ pl[t].played
                                                \/ o.idle_reason = "FINISHED"),
                                   ![t].grace_passed =
                                       @ \/ (/\ o.state = "IDLE" /\ ~pl[t].played
                                             /\ o.idle_reason \in {"None", "INTERRUPTED"}
                                             /\ e > GracePeriod * 10)]
                              /\ UNCHANGED pc
                 IN
                 IF o.state = "PLAYING" THEN sleep
                 ELSE IF o.state = "IDLE"
                 THEN IF pl[t].played \/ o.idle_reason = "FINISHED"
                      THEN Determine(t, AfterLoopResult, "poll_finished", o)
                      ELSE IF IsErrorReason(o.idle_reason)
                      THEN Determine(t, "False", "poll_error", o)
                      ELSE IF GraceOver(e)
                      THEN Determine(t, AfterLoopResult, "poll_grace", o)
                      ELSE sleep
                 ELSE sleep
    /\ UNCHANGED <<conn, cwd, stk, arg, rv, last, budget, bot>>

\* Lines 257-259.
play_except(t) ==
    /\ pc[t] = "p257"
    /\ pl' = [pl EXCEPT ![t].result = "False"]
    /\ gh' = [gh EXCEPT ![t].how = "exception"]
    /\ pc' = [pc EXCEPT ![t] = "p260"]
    /\ UNCHANGED <<conn, cwd, stk, arg, rv, last, budget, bot>>

\* The locals of the poll loop are dead once the finally clause runs: the
\* result is determined and nothing reads them again.
Settled(l) ==
    [l EXCEPT !.state = "None", !.idle_reason = "None",
              !.played = FALSE, !.elapsed = 0]

\* The finally clause without the try of lines 262-265: what server.stop()
\* raises leaves the call in place of the result.
PlayReturns_StopRaises(t) ==
    /\ pc' = [pc EXCEPT ![t] = "done"]
    /\ rv' = [rv EXCEPT ![t] =
                 [op |-> "play_on_googlecast",
                  ret |-> IF pl[t].httpd = "serving" THEN "raised"
                          ELSE pl[t].result]]

\* The call returns its result to the executor.
PlayReturns(t) ==
    /\ pc' = [pc EXCEPT ![t] = "done"]
    /\ rv' = [rv EXCEPT ![t] = [op |-> "play_on_googlecast", ret |-> pl[t].result]]

\* Lines 260-261, and AudioServer.stop, lines 138-139: shutdown ends
\* serve_forever and leaves the listening socket open; when it raises, the
\* handler at line 264 swallows it and line 141 is skipped.
AudioServer_stop_shutdown(t) ==
    /\ pc[t] = "p260"
    /\ IF pl[t].server = "None"
       THEN PlayReturns(t) /\ UNCHANGED <<pl, gh>>
       ELSE \/ /\ pl[t].httpd = "serving"
               /\ gh' = [gh EXCEPT ![t].stops = @ + 1]
               /\ PlayReturns(t)
               /\ pl' = [pl EXCEPT ![t] = Settled(@)]
            \/ /\ pl' = [pl EXCEPT ![t] = Settled(
                            [@ EXCEPT !.httpd = IF @ = "serving" THEN "stopped" ELSE @])]
               /\ gh' = [gh EXCEPT ![t].stops = @ + 1]
               /\ pc' = [pc EXCEPT ![t] = "s140"]
               /\ UNCHANGED rv
    /\ UNCHANGED <<conn, cwd, stk, arg, last, budget, bot>>

\* AudioServer.stop, lines 140-141, and the return: chdir raises when the
\* original directory is gone, and line 264 swallows it; gh.restored
\* records that the chdir of line 141 was made.
AudioServer_stop_chdir(t) ==
    /\ pc[t] = "s140"
    /\ \/ /\ pl[t].original_dir # "None"
          /\ UNCHANGED <<cwd, gh>>
       \/ /\ cwd' = IF pl[t].original_dir # "None"
                     THEN pl[t].original_dir ELSE cwd
          /\ gh' = [gh EXCEPT ![t].restored = pl[t].original_dir # "None"]
    /\ PlayReturns(t)
    /\ UNCHANGED <<conn, stk, arg, pl, last, budget, bot>>

\* What subprocess.run(["afplay", path], check=True) does: the utility exits
\* with status 0 or with another status (CalledProcessError), or it is not
\* on the host (FileNotFoundError).
SayOutcomes == {"exit0", "nonzero", "missing"}

\* play_on_macos_say, lines 268-275, run by the executor (line 292) for the
\* device d play_audio was called with: only CalledProcessError is handled.
play_on_macos_say(t, d) ==
    /\ pc[t] = "idle"
    /\ budget[t] > 0
    /\ \E out \in SayOutcomes :
          /\ gh' = [gh EXCEPT ![t] = [AtEntry EXCEPT !.how = out]]
          /\ rv' = [rv EXCEPT ![t] =
                       [op |-> "play_on_macos_say",
                        ret |-> CASE out = "exit0" -> "True"
                                  [] out = "nonzero" -> "False"
                                  [] OTHER -> "raised"]]
    /\ arg' = [arg EXCEPT ![t] = [NoArgs EXCEPT !.op = "play_on_macos_say",
                                                !.dev = d]]
    /\ pc' = [pc EXCEPT ![t] = "done"]
    /\ UNCHANGED <<conn, cwd, stk, pl, last, bot>>
    /\ Spend(t)

\* What pychromecast does for a discovery: get_chromecasts raises, or it
\* returns the casts found and a browser whose stop_discovery returns or
\* raises.
ScanOutcomes == {"scan_raises", "found", "stop_raises"}

\* utils.py lines 24-44 without the handler of line 42.
discover_googlecast_devices_NoHandler(scan, found) ==
    [raised |-> scan # "found",
     devices |-> {[id |-> i, device_type |-> GOOGLE_CAST] : i \in found}]

\* discover_googlecast_devices, utils.py lines 24-44: the list is filled
\* from what get_chromecasts returned; whatever is raised is logged and the
\* list as it stands is returned.
discover_googlecast_devices(scan, found) ==
    [raised |-> FALSE,
     devices |-> IF scan = "scan_raises" THEN {}
                 ELSE {[id |-> i, device_type |-> GOOGLE_CAST] : i \in found}]

\* get_macos_say_device, utils.py lines 47-54.
get_macos_say_device == [id |-> "macos_say", device_type |-> MACOS_SAY]

\* discover_all_devices, utils.py lines 57-68.
discover_all_devices(darwin, scan, found) ==
    LET r == discover_googlecast_devices(scan, found) IN
    [raised |-> r.raised,
     devices |-> (IF darwin THEN {get_macos_say_device} ELSE {}) \cup r.devices]

\* The executor runs discover_all_devices (handlers.py lines 184 and 208);
\* gh.devices is the list returned.
CallDiscover(t) ==
    /\ pc[t] = "idle"
    /\ budget[t] > 0
    /\ \E darwin \in BOOLEAN, scan \in ScanOutcomes, found \in SUBSET CastIds :
          LET r == discover_all_devices(darwin, scan, found) IN
          /\ gh' = [gh EXCEPT ![t] = [AtEntry EXCEPT !.how = scan,
                                                     !.devices = r.devices]]
          /\ rv' = [rv EXCEPT ![t] =
                       [op |-> "discover_all_devices",
                        ret |-> IF r.raised THEN "raised" ELSE "list"]]
    /\ arg' = [arg EXCEPT ![t] = [NoArgs EXCEPT !.op = "discover_all_devices"]]
    /\ pc' = [pc EXCEPT ![t] = "done"]
    /\ UNCHANGED <<conn, cwd, stk, pl, last, bot>>
    /\ Spend(t)

\* Lines 291-294 with every device handed to play_on_googlecast.
Backend_AlwaysCast(d) == "play_on_googlecast"

\* Lines 291-294: the function the executor is given for the device.
Backend(d) ==
    IF d.device_type = MACOS_SAY THEN "play_on_macos_say"
    ELSE IF d.device_type = GOOGLE_CAST THEN "play_on_googlecast"
    ELSE "none"

\* play_audio, lines 288-295: the executor runs the backend of the device's
\* type and play_audio returns what it returns.  DeviceType has no third
\* member, so line 295 is not reached.
play_audio(t, d, f) ==
    \/ Backend(d) = "play_on_macos_say" /\ play_on_macos_say(t, d)
    \/ Backend(d) = "play_on_googlecast" /\ CallPlay(t, d, f)

\* After the return nothing refers to the HTTPServer any more; the runtime
\* closes its socket when it finalizes the object, if it does.
Finalize(t) ==
    /\ pc[t] = "done"
    /\ pl[t].httpd = "stopped"
    /\ pl' = [pl EXCEPT ![t].httpd = "closed"]
    /\ UNCHANGED <<conn, cwd, pc, stk, arg, gh, rv, last, budget, bot>>

\* The executor hands the result to the caller; the frame is gone.
Return(t) ==
    /\ pc[t] = "done"
    /\ pc' = [pc EXCEPT ![t] = "idle"]
    /\ last' = [last EXCEPT ![t] =
                   IF rv[t] = [op |-> "connect", ret |-> "True"]
                   THEN arg[t].dev.id ELSE "None"]
    /\ arg' = [arg EXCEPT ![t] = NoArgs]
    /\ pl' = [pl EXCEPT ![t] = PlayLocals0]
    /\ gh' = [gh EXCEPT ![t] = History0]
    /\ rv' = [rv EXCEPT ![t] = NoCall]
    /\ UNCHANGED <<conn, cwd, stk, budget, bot>>

PlayStep(t) ==
    \/ \E d \in Devices, f \in Files : play_audio(t, d, f)
    \/ CallGetCast(t)
    \/ play_precondition(t)
    \/ play_acquire(t)
    \/ play_connect_failed(t)
    \/ play_after_connect(t)
    \/ AudioServer_start_chdir(t)
    \/ AudioServer_start_listen(t)
    \/ play_prepare(t)
    \/ play_media(t)
    \/ play_initial_check(t)
    \/ play_block_until_active(t)
    \/ play_recheck(t)
    \/ play_classify(t)
    \/ play_poll(t)
    \/ play_except(t)
    \/ AudioServer_stop_shutdown(t)
    \/ AudioServer_stop_chdir(t)
    \/ Finalize(t)
    \/ Return(t)

ConnectionStep(t) ==
    \/ \E d \in Devices : CallConnect(t, d)
    \/ CallDisconnect(t)
    \/ CallIsConnected(t)
    \/ CallDiscover(t)
    \/ connect_check_type(t)
    \/ connect_switch(t)
    \/ connect_discover(t)
    \/ connect_not_found(t)
    \/ connect_wait(t)
    \/ connect_commit(t)
    \/ connect_stop_discovery(t)
    \/ connect_except(t)
    \/ disconnect_browser(t)
    \/ disconnect_cast(t)
    \/ disconnect_reset(t)

\* One worker thread at a time: the bot handles its updates one by one.
Next == ConnectionStep(Main) \/ PlayStep(Main)

Spec == Init /\ [][Next]_vars

\* Two worker threads of the executor pool use cast_connection at once.
NextConc ==
    \E t \in Threads :
        \/ \E d \in Devices : CallConnect(t, d)
        \/ CallDisconnect(t)
        \/ connect_check_type(t)
        \/ connect_switch(t)
        \/ connect_discover(t)
        \/ connect_not_found(t)
        \/ connect_wait(t)
        \/ connect_commit(t)
        \/ connect_stop_discovery(t)
        \/ connect_except(t)
        \/ disconnect_browser(t)
        \/ disconnect_cast(t)
        \/ disconnect_reset(t)
        \/ Return(t)

\* The two threads are handed MaxConcCalls calls each, with no connection
\* yet or with the connection to dev-1 that a connect has left.
InitConc ==
    /\ \/ cast = NoCast /\ device_id = "None" /\ connected = FALSE /\ live = {}
       \/ cast = 1 /\ device_id = "dev-1" /\ connected = TRUE /\ live = {1}
    /\ browser = "None"
    /\ cwd = HomeDir
    /\ pc = [t \in Threads |-> "idle"]
    /\ stk = [t \in Threads |-> <<>>]
    /\ arg = [t \in Threads |-> NoArgs]
    /\ pl = [t \in Threads |-> PlayLocals0]
    /\ gh = [t \in Threads |-> History0]
    /\ rv = [t \in Threads |-> NoCall]
    /\ last = [t \in Threads |-> "None"]
    /\ budget = [t \in Threads |-> MaxConcCalls]
    /\ bot = Bot0

SpecConc == InitConc /\ [][NextConc]_vars

\* The device and the file of the overlapping calls.
PlayedDevice == [id |-> "dev-1", device_type |-> GOOGLE_CAST]
PlayedFile == [exists |-> TRUE, size |-> MinFileSize]

\* A step of play_on_googlecast outside its poll loop, or of the connect and
\* disconnect it calls, by thread t.
PlayCallStep(t) ==
    \/ CallPlay(t, PlayedDevice, PlayedFile)
    \/ play_precondition(t)
    \/ play_acquire(t)
    \/ play_connect_failed(t)
    \/ play_after_connect(t)
    \/ AudioServer_start_chdir(t)
    \/ AudioServer_start_listen(t)
    \/ play_prepare(t)
    \/ play_media(t)
    \/ play_initial_check(t)
    \/ play_block_until_active(t)
    \/ play_recheck(t)
    \/ play_classify(t)
    \/ play_except(t)
    \/ AudioServer_stop_shutdown(t)
    \/ AudioServer_stop_chdir(t)
    \/ connect_check_type(t)
    \/ connect_switch(t)
    \/ connect_discover(t)
    \/ connect_not_found(t)
    \/ connect_wait(t)
    \/ connect_commit(t)
    \/ connect_stop_discovery(t)
    \/ connect_except(t)
    \/ disconnect_browser(t)
    \/ disconnect_cast(t)
    \/ disconnect_reset(t)

\* Two worker threads of the executor pool run play_on_googlecast at once
\* (play_audio, lines 288-295), for a device whose playback is over by the
\* second pass of the poll loop.
NextConcPlay ==
    \E t \in Threads :
        \/ PlayCallStep(t)
        \/ play_poll(t) /\ pl'[t].elapsed <= PollSleepTenths

\* The threads are handed MaxConcCalls calls each, from the home directory.
SpecConcPlay == InitConc /\ [][NextConcPlay]_vars

\* ---------------------------------------------- handlers (handlers.py)

Handlers == {"handle_voice", "handle_audio", "handle_text"}

\* The handlers main() registers (main.py lines 997-1008).
BotHandlers ==
    Handlers \cup {"start", "help_command", "status", "connect", "devices",
                   "setup", "button_callback"}

\* Lines 21-27 with the test of line 24 left out.
is_authorized_Any(user) == TRUE

\* is_authorized, lines 21-27: the id of the update's user, or None, is
\* looked up in ALLOWED_USERS.
is_authorized(user) == user \in ALLOWED_USERS

\* What the handlers leave alone: they reach cast_connection only through
\* play_audio, whose steps are the actions above and whose outcome is all
\* that the handler uses.
services == <<conn, cwd, stk, pl, last, budget>>

\* A handler ends, by returning (ret = "None") or by raising, having done
\* what "did" names on its last stretch: sent or edited a message
\* ("reply"), run a scan ("discover"), called cast_connection.connect
\* ("connect"), played or spoken ("play"), assigned
\* config.selected_device ("select").
HandlerEndsHaving(t, op, how, ret, did) ==
    /\ pc' = [pc EXCEPT ![t] = "done"]
    /\ gh' = [gh EXCEPT ![t].how = how, ![t].did = @ \cup did]
    /\ rv' = [rv EXCEPT ![t] = [op |-> op, ret |-> ret]]

HandlerEnds(t, op, how, ret) == HandlerEndsHaving(t, op, how, ret, {})

\* The dispatcher hands an update of the user to the handler op.
HandlerEnters(t, op, user, data) ==
    /\ pc[t] = "idle"
    /\ arg' = [arg EXCEPT ![t] = [NoArgs EXCEPT !.op = op, !.user = user,
                                                !.data = data]]

\* The head of the three handlers (lines 306-319, 380-393, 426-446): an
\* update of a user who is not allowed is dropped; with no selected device
\* the handler replies and returns; otherwise it sends the status message,
\* starts the animation and goes on to make its temporary file at line
\* "next".
HandlerBegins(t, op, next, user) ==
    /\ HandlerEnters(t, op, user, NoData)
    /\ IF ~is_authorized(user)
       THEN /\ HandlerEnds(t, op, "unauthorized", "None")
            /\ UNCHANGED bot
       ELSE IF bot.selected = NoDeviceRecord
       THEN /\ HandlerEndsHaving(t, op, "no_device", "None", {"reply"})
            /\ UNCHANGED bot
       ELSE /\ pc' = [pc EXCEPT ![t] = next]
            /\ gh' = [gh EXCEPT ![t].did = @ \cup {"reply"}]
            /\ bot' = [bot EXCEPT !.h.anim =
                          ProgressAnimation_start(ProgressAnimation_init,
                                                  "process")]
            /\ UNCHANGED rv
    /\ UNCHANGED services

\* handle_voice, lines 304-324.
handle_voice(t) ==
    \E user \in EffectiveUsers : HandlerBegins(t, "handle_voice", "v326", user)

\* handle_audio, lines 378-397.
handle_audio(t) ==
    \E user \in EffectiveUsers : HandlerBegins(t, "handle_audio", "a399", user)

\* handle_text, lines 424-446: a text that is empty or a command is ignored.
handle_text(t) ==
    \/ \E user \in EffectiveUsers :
          HandlerBegins(t, "handle_text", "h449", user)
    \/ \E user \in EffectiveUsers :
          /\ is_authorized(user)
          /\ bot.selected # NoDeviceRecord
          /\ HandlerEnters(t, "handle_text", user, NoData)
          /\ HandlerEnds(t, "handle_text", "ignored", "None")
          /\ UNCHANGED <<bot, services>>

\* tempfile.NamedTemporaryFile(delete=False): lines 326-327 (the .ogg),
\* 399-400 (the .mp3 to download into), 449-450 (the .mp3 for the speech).
handler_tempfile(t) ==
    /\ pc[t] \in {"v326", "a399", "h449"}
    /\ bot' = CASE pc[t] = "v326" ->
                     [bot EXCEPT !.tmp = @ \cup {"voice.ogg"},
                                 !.h.tmp_path = "voice.ogg"]
                 [] pc[t] = "a399" ->
                     [bot EXCEPT !.tmp = @ \cup {"audio.mp3"},
                                 !.h.tmp_path = "audio.mp3"]
                 [] OTHER ->
                     [bot EXCEPT !.tmp = @ \cup {"tts.mp3"},
                                 !.h.mp3_path = "tts.mp3"]
    /\ pc' = [pc EXCEPT ![t] = CASE pc[t] = "v326" -> "v329"
                                 [] pc[t] = "a399" -> "a402"
                                 [] OTHER -> "t53"]
    /\ UNCHANGED <<arg, gh, rv, services>>

\* file.download_to_drive, lines 329 and 402: it returns or raises, and
\* what it raises leaves the handler.
handler_download(t) ==
    /\ pc[t] \in {"v329", "a402"}
    /\ \/ HandlerEnds(t, arg[t].op, "download_raised", "raised")
       \/ /\ pc' = [pc EXCEPT ![t] = IF pc[t] = "v329" THEN "v333" ELSE "a405"]
          /\ UNCHANGED <<gh, rv>>
    /\ UNCHANGED <<arg, bot, services>>

\* What ffmpeg does with the .ogg: it writes the .mp3, or fails having
\* written nothing or a part of it, or is not on the host.
ConvertOutcomes == {"converted", "failed", "failed_partial", "missing"}

\* handle_voice, lines 332-352: when the conversion fails the .ogg itself
\* is played.
handle_voice_convert(t) ==
    /\ pc[t] = "v333"
    /\ \E out \in ConvertOutcomes :
          bot' = [bot EXCEPT
                    !.tmp = IF out \in {"converted", "failed_partial"}
                            THEN @ \cup {"voice.mp3"} ELSE @,
                    !.h.mp3_path = IF out = "converted" THEN "voice.mp3"
                                   ELSE bot.h.tmp_path]
    /\ pc' = [pc EXCEPT ![t] = "v355"]
    /\ UNCHANGED <<arg, gh, rv, services>>

\* text_to_mp3 returns to line 453 of handle_text.
TtsReturns(t) ==
    /\ pc' = [pc EXCEPT ![t] = "h455"]
    /\ UNCHANGED <<arg, gh, rv, services>>

\* What "say -o" does: it is not on the host, exits non-zero, exits 0
\* without the file, or exits 0 having written the .aiff.
SayToolOutcomes == {"missing", "nonzero", "no_file", "created"}

\* text_to_mp3, tts.py lines 53-76, run by the executor (handlers.py 453).
text_to_mp3_say(t) ==
    /\ pc[t] = "t53"
    /\ \E out \in SayToolOutcomes :
          IF out = "created"
          THEN /\ bot' = [bot EXCEPT !.tmp = @ \cup {"tts.aiff"}]
               /\ pc' = [pc EXCEPT ![t] = "t79"]
               /\ UNCHANGED <<arg, gh, rv, services>>
          ELSE /\ bot' = [bot EXCEPT !.h.tts_success = "False"]
               /\ TtsReturns(t)

\* What ffmpeg does with the .aiff: it is not on the host, exits non-zero,
\* or exits 0 having written an .mp3 of at least MinFileSize bytes or a
\* smaller one.
FfmpegOutcomes == {"missing", "nonzero", "written", "written_small"}

\* text_to_mp3, tts.py lines 78-116: the .aiff is removed at line 96, past
\* the return of line 94; subprocess.run without check raises no
\* CalledProcessError, so the handler of line 111 never runs, and the one of
\* line 114 removes nothing.
text_to_mp3_ffmpeg(t) ==
    /\ pc[t] = "t79"
    /\ \E out \in FfmpegOutcomes :
          bot' = [bot EXCEPT
                    !.tmp = IF out \in {"written", "written_small"}
                            THEN @ \ {"tts.aiff"} ELSE @,
                    !.h.tts_success = IF out = "written" THEN "True"
                                      ELSE "False"]
    /\ TtsReturns(t)

\* handle_text, lines 455-458: on a failed conversion the handler stops
\* the animation, edits the status message and returns.
handle_text_tts_result(t) ==
    /\ pc[t] = "h455"
    /\ IF bot.h.tts_success = "False"
       THEN /\ bot' = [bot EXCEPT !.h.anim = ProgressAnimation_stop(@)]
            /\ HandlerEndsHaving(t, arg[t].op, "tts_failed", "None",
                                 {"reply"})
       ELSE /\ pc' = [pc EXCEPT ![t] = "h461"]
            /\ UNCHANGED <<bot, gh, rv>>
    /\ UNCHANGED <<arg, services>>

\* await anim.switch_to_playing(), lines 355, 405 and 461.
handler_switch_to_playing(t) ==
    /\ pc[t] \in {"v355", "a405", "h461"}
    /\ bot' = [bot EXCEPT !.h.anim = ProgressAnimation_switch_to_playing(@)]
    /\ pc' = [pc EXCEPT ![t] = CASE pc[t] = "v355" -> "v358"
                                 [] pc[t] = "a405" -> "a408"
                                 [] OTHER -> "h464"]
    /\ UNCHANGED <<arg, gh, rv, services>>

\* What play_audio can do for the device: a boolean, or, for the local
\* device only, the FileNotFoundError of a missing afplay (services.py
\* lines 268-275 and 288-295).
PlayAudioOutcomes(d) ==
    IF d.device_type = MACOS_SAY THEN {"True", "False", "raised"}
    ELSE {"True", "False"}

\* await play_audio(config.selected_device, path), lines 358, 408 and 464:
\* what it raises leaves the handler.
handler_play_audio(t) ==
    /\ pc[t] \in {"v358", "a408", "h464"}
    /\ \E r \in PlayAudioOutcomes(bot.selected) :
          IF r = "raised"
          THEN HandlerEndsHaving(t, arg[t].op, "play_raised", "raised",
                                 {"play"})
          ELSE /\ pc' = [pc EXCEPT ![t] = CASE pc[t] = "v358" -> "v361"
                                           [] pc[t] = "a408" -> "a411"
                                           [] OTHER -> "h467"]
               /\ gh' = [gh EXCEPT ![t].how =
                            IF r = "True" THEN "played" ELSE "play_failed",
                                    ![t].did = @ \cup {"play"}]
               /\ UNCHANGED rv
    /\ UNCHANGED <<arg, bot, services>>

\* await anim.stop(), the cleanup, the last message and the return: lines
\* 361-375 (the .ogg, and the .mp3 when it is another file), 411-421,
\* 467-477.
handler_cleanup(t) ==
    /\ pc[t] \in {"v361", "a411", "h467"}
    /\ bot' = [bot EXCEPT !.tmp = @ \ {bot.h.tmp_path, bot.h.mp3_path},
                          !.h.anim = ProgressAnimation_stop(@)]
    /\ HandlerEndsHaving(t, arg[t].op, gh[t].how, "None", {"reply"})
    /\ UNCHANGED <<arg, services>>

\* start, lines 96-110, and help_command, lines 113-115, which calls it.
Welcome(t, op) ==
    \E user \in EffectiveUsers :
        /\ HandlerEnters(t, op, user, NoData)
        /\ IF ~is_authorized(user)
           THEN HandlerEnds(t, op, "unauthorized", "None")
           ELSE HandlerEndsHaving(t, op, "welcomed", "None", {"reply"})
        /\ UNCHANGED <<bot, services>>

start(t) == Welcome(t, "start")

help_command(t) == Welcome(t, "help_command")

\* status, lines 118-134.
status(t) ==
    \E user \in EffectiveUsers :
        /\ HandlerEnters(t, "status", user, NoData)
        /\ IF ~is_authorized(user)
           THEN HandlerEnds(t, "status", "unauthorized", "None")
           ELSE HandlerEndsHaving(t, "status",
                                  IF bot.selected # NoDeviceRecord
                                  THEN "shown" ELSE "no_device",
                                  "None", {"reply"})
        /\ UNCHANGED <<bot, services>>

\* What the executor's cast_connection.connect(device) gives the handler,
\* and whether cast_connection already held a live connection to the
\* device, left by an earlier request (line 154).
ConnectOutcomes == {"True", "False", "raised"}

\* connect, lines 137-174. The steps of cast_connection.connect are the
\* actions of CastConnection above; the handler uses its outcome only.
connect(t) ==
    \E user \in EffectiveUsers :
        /\ HandlerEnters(t, "connect", user, NoData)
        /\ IF ~is_authorized(user)
           THEN HandlerEnds(t, "connect", "unauthorized", "None")
           ELSE IF bot.selected = NoDeviceRecord
           THEN HandlerEndsHaving(t, "connect", "no_device", "None",
                                  {"reply"})
           ELSE IF bot.selected.device_type # GOOGLE_CAST
           THEN HandlerEndsHaving(t, "connect", "local", "None", {"reply"})
           ELSE \/ HandlerEndsHaving(t, "connect", "already", "None",
                                     {"reply"})
                \/ \E success \in ConnectOutcomes :
                      HandlerEndsHaving(
                          t, "connect",
                          CASE success = "True" -> "connected"
                            [] success = "False" -> "connect_failed"
                            [] OTHER -> "connect_raised",
                          IF success = "raised" THEN "raised" ELSE "None",
                          {"reply", "connect"})
        /\ UNCHANGED <<bot, services>>

\* The Device objects of a scan (utils.py lines 33-38 and 49-54) in the
\* order of the list discover_all_devices returns: the local device first.
DeviceList(found) ==
    LET Record(d) ==
            [id |-> d.id, name |-> "Speaker",
             address |-> IF d.device_type = GOOGLE_CAST THEN "10.0.0.5"
                         ELSE "None",
             device_type |-> d.device_type]
        Pick(i) ==
            IF \E d \in found : d.id = i
            THEN <<Record(CHOOSE d \in found : d.id = i)>> ELSE <<>>
    IN  Pick("macos_say") \o Pick("dev-1") \o Pick("dev-2")

\* devices, lines 177-194: the scan is listed, nothing is stored.
devices(t) ==
    \E user \in EffectiveUsers :
        /\ HandlerEnters(t, "devices", user, NoData)
        /\ IF ~is_authorized(user)
           THEN HandlerEnds(t, "devices", "unauthorized", "None")
           ELSE \E darwin \in BOOLEAN, scan \in ScanOutcomes,
                   found \in SUBSET CastIds :
                    LET found_devices ==
                            DeviceList(discover_all_devices(darwin, scan,
                                                            found).devices)
                    IN  HandlerEndsHaving(t, "devices",
                                          IF found_devices = <<>>
                                          THEN "none_found" ELSE "listed",
                                          "None", {"reply", "discover"})
        /\ UNCHANGED <<bot, services>>

\* setup, lines 197-245: a scan that found devices is stored in
\* context.user_data["setup_devices"] (line 221) and shown as buttons; one
\* that found none leaves the stored list as it was (lines 210-218).
setup(t) ==
    \E user \in EffectiveUsers :
        /\ HandlerEnters(t, "setup", user, NoData)
        /\ IF ~is_authorized(user)
           THEN /\ HandlerEnds(t, "setup", "unauthorized", "None")
                /\ UNCHANGED bot
           ELSE \E darwin \in BOOLEAN, scan \in ScanOutcomes,
                   found \in SUBSET CastIds :
                    LET found_devices ==
                            DeviceList(discover_all_devices(darwin, scan,
                                                            found).devices)
                    IN  /\ bot' = IF found_devices = <<>> THEN bot
                                  ELSE [bot EXCEPT
                                           !.setup_devices = found_devices]
                        /\ HandlerEndsHaving(t, "setup",
                                             IF found_devices = <<>>
                                             THEN "none_found" ELSE "offered",
                                             "None", {"reply", "discover"})
        /\ UNCHANGED services

\* Lines 262-267 with the comparison of line 265 left out: the first device
\* of the list is taken.
FindDevice_First(devices_list, id) ==
    IF devices_list = <<>> THEN NoDeviceRecord ELSE devices_list[1]

\* button_callback, lines 262-267: the first device of the stored list with
\* the id, or None.
FindDevice(devices_list, id) ==
    LET hits == {i \in DOMAIN devices_list :
                    devices_list[i].id = id}
    IN  IF hits = {} THEN NoDeviceRecord ELSE devices_list[Min(hits)]

\* What speak_text_macos gives the "confirm_test" branch (line 293).
SpeakOutcomes == {"True", "False"}

\* button_callback, lines 248-300: the query is answered; a cancel edits
\* the message and returns; a selection found in the stored list is
\* assigned to config.selected_device and saved (lines 274-275), one that
\* is not found is reported; "confirm_test" speaks on the local device.
button_callback(t) ==
    \E user \in EffectiveUsers, data \in QueryData :
        /\ HandlerEnters(t, "button_callback", user, data)
        /\ IF ~is_authorized(user)
           THEN /\ HandlerEnds(t, "button_callback", "unauthorized", "None")
                /\ UNCHANGED bot
           ELSE IF data.prefix = "cancel_setup"
           THEN /\ HandlerEndsHaving(t, "button_callback", "cancelled",
                                     "None", {"reply"})
                /\ UNCHANGED bot
           ELSE IF data.prefix = "select_"
           THEN LET selected == FindDevice(bot.setup_devices, data.id) IN
                IF selected = NoDeviceRecord
                THEN /\ HandlerEndsHaving(t, "button_callback", "not_found",
                                          "None", {"reply"})
                     /\ UNCHANGED bot
                ELSE /\ bot' = [bot EXCEPT !.selected = selected,
                                           !.cfile = Config_save(selected),
                                           !.saved = selected,
                                           !.synced = "saved"]
                     /\ HandlerEndsHaving(t, "button_callback", "selected",
                                          "None", {"reply", "select"})
           ELSE /\ IF bot.selected # NoDeviceRecord
                      /\ bot.selected.device_type = MACOS_SAY
                   THEN \E success \in SpeakOutcomes :
                          HandlerEndsHaving(t, "button_callback",
                                            IF success = "True"
                                            THEN "tested" ELSE "test_failed",
                                            "None", {"reply", "play"})
                   ELSE HandlerEndsHaving(t, "button_callback", "no_test",
                                          "None", {"reply"})
                /\ UNCHANGED bot
        /\ UNCHANGED services

\* The handler has ended; its frame is gone.
HandlerReturn(t) ==
    /\ pc[t] = "done"
    /\ arg[t].op \in BotHandlers
    /\ pc' = [pc EXCEPT ![t] = "idle"]
    /\ arg' = [arg EXCEPT ![t] = NoArgs]
    /\ gh' = [gh EXCEPT ![t] = History0]
    /\ rv' = [rv EXCEPT ![t] = NoCall]
    /\ bot' = [bot EXCEPT !.h = HandlerLocals0]
    /\ UNCHANGED services

\* The process is started again: config = Config() (config.py line 58)
\* loads the file the last run left; the temporary files of that run are
\* still on the disk, and context.user_data, which main() gives no
\* persistence, is empty.
Config_init(t) ==
    /\ pc[t] = "idle"
    /\ bot' = [BotStart(bot.cfile, bot.tmp) EXCEPT
                  !.saved = bot.saved,
                  !.synced = IF bot.synced = "none" THEN "none" ELSE "loaded"]
    /\ UNCHANGED <<pc, arg, gh, rv, services>>

NextBot ==
    \/ handle_voice(Main)
    \/ handle_audio(Main)
    \/ handle_text(Main)
    \/ handler_tempfile(Main)
    \/ handler_download(Main)
    \/ handle_voice_convert(Main)
    \/ text_to_mp3_say(Main)
    \/ text_to_mp3_ffmpeg(Main)
    \/ handle_text_tts_result(Main)
    \/ handler_play_audio(Main)
    \/ handler_cleanup(Main)
    \/ handler_switch_to_playing(Main)
    \/ start(Main)
    \/ help_command(Main)
    \/ status(Main)
    \/ connect(Main)
    \/ devices(Main)
    \/ setup(Main)
    \/ button_callback(Main)
    \/ HandlerReturn(Main)
    \/ Config_init(Main)

\* The bot starts on any file a save can have left, or on none.
InitBot ==
    /\ cast = NoCast /\ browser = "None" /\ connected = FALSE
    /\ device_id = "None" /\ live = {} /\ cwd = HomeDir
    /\ pc = [t \in Threads |-> "idle"]
    /\ stk = [t \in Threads |-> <<>>]
    /\ arg = [t \in Threads |-> NoArgs]
    /\ pl = [t \in Threads |-> PlayLocals0]
    /\ gh = [t \in Threads |-> History0]
    /\ rv = [t \in Threads |-> NoCall]
    /\ last = [t \in Threads |-> "None"]
    /\ budget = [t \in Threads |-> Unlimited]
    /\ \E f \in ConfigFiles : bot = BotStart(f, {})

SpecBot == InitBot /\ [][NextBot]_vars

\* ------------------------------------------------------------------ claims

NoConnection ==
    cast = NoCast /\ device_id = "None" /\ ~connected /\ browser = "None"

Quiescent == \A t \in Threads : pc[t] \in {"idle", "done"}

Obs(t) == [state |-> pl[t].state, idle_reason |-> pl[t].idle_reason]

ConnectLabels == {"c39", "c43", "c48", "c56", "c61", "c64", "c69", "c76"}
DisconnectLabels == {"d82", "d85", "d87"}
InConnectionOp(t) == pc[t] \in ConnectLabels \cup DisconnectLabels

\* C1: when the poll loop of play_on_googlecast runs out its 60 s without a
\* pass that ends the call, the call returns False.
C1_TimeoutReturnsFalse ==
    \A t \in Threads : gh[t].how = "timeout" => pl[t].result = "False"

\* C2: when play_on_googlecast has returned, the media server it made was
\* stopped exactly once and no listener it started is still bound.
C2_ServerStoppedAndUnbound ==
    \A t \in Threads :
        (pc[t] = "done" /\ rv[t].op = "play_on_googlecast") =>
            /\ gh[t].stops = (IF pl[t].server = "None" THEN 0 ELSE 1)
            /\ pl[t].httpd \notin {"serving", "stopped"}

\* C3 as stated: after any observation of IDLE with an error reason the call
\* is in its finally clause or has returned, with the result False; it is
\* never about to wait for activation or to poll again.
C3_AnyErrorObservationFails ==
    \A t \in Threads :
        IsError(Obs(t)) =>
            pc[t] \in {"p260", "s140", "done"} /\ pl[t].result = "False"

\* C3 as amended: an error observation made by the read after the
\* activation wait (line 217), or by a pass of the poll loop before any
\* PLAYING observation, ends the call at once with False: no such
\* observation is passed over, and the call that ends on one returns False.
C3_ErrorAfterActivationFails ==
    \A t \in Threads :
        /\ ~gh[t].error_passed
        /\ (pc[t] = "p260" /\ IsError(Obs(t)) /\ ~pl[t].played) =>
               pl[t].result = "False"
        /\ (pc[t] = "p260" /\ gh[t].how \in {"classify_error", "poll_error"}) =>
               IsError(Obs(t)) /\ pl[t].result = "False"

\* C3 witness: a pass of the poll loop, some sleeps in, met an error
\* observation and the call ended with False.
C3_Witness ==
    \E t \in Threads :
        /\ pc[t] = "p260" /\ gh[t].how = "poll_error"
        /\ pl[t].elapsed > 0 /\ IsError(Obs(t)) /\ pl[t].result = "False"

\* C4: a connect(D) that directly follows a successful connect(D) makes no
\* discovery, returns True and leaves the first call's handle in place.
C4_SecondConnectIsNoOp ==
    \A t \in Threads :
        (arg[t].op = "connect" /\ last[t] # "None" /\ arg[t].dev.id = last[t]) =>
            /\ gh[t].lookups = 0
            /\ pc[t] = "done" => (rv[t].ret = "True" /\ cast = gh[t].entry_cast)

\* C5: whenever no call is in progress, device_id is set exactly when the
\* handle is present, and connected holds only when both are.
C5_ConnectionStateInvariant ==
    Quiescent =>
        /\ (device_id # "None") <=> (cast # NoCast)
        /\ connected => (cast # NoCast /\ device_id # "None")

\* C6: at most one established, unreleased session handle exists at any time.
C6_AtMostOneLiveHandle == Cardinality(live) <= 1

\* C7: no two threads are inside connect or disconnect at the same time.
C7_MutualExclusion ==
    \A t1, t2 \in Threads :
        t1 # t2 => ~(InConnectionOp(t1) /\ InConnectionOp(t2))

\* C8: a connect to a cast device that does not succeed returns False and
\* leaves the state in the no-connection form.
C8_FailedConnectClears ==
    \A t \in Threads :
        (/\ pc[t] = "done" /\ rv[t].op = "connect"
         /\ arg[t].dev.device_type = GOOGLE_CAST /\ rv[t].ret # "True") =>
            rv[t].ret = "False" /\ NoConnection

\* C9: when connect(D2) is entered while connected to D1 # D2, then at the
\* moment the discovery for D2 is about to begin D1's handle has been
\* released and the connection state cleared.
C9_SwitchReleasesFirst ==
    \A t \in Threads :
        (/\ pc[t] = "c48"
         /\ gh[t].entry_device # "None"
         /\ gh[t].entry_device # arg[t].dev.id) =>
            NoConnection /\ gh[t].entry_cast \notin live

\* C9 witness: play_on_googlecast for dev-2, entered while connected to
\* dev-1 with a live handle, is about to begin the discovery.
C9_Witness ==
    \E t \in Threads :
        /\ pc[t] = "c48" /\ stk[t] = <<"p166">>
        /\ gh[t].entry_device = "dev-1" /\ arg[t].dev.id = "dev-2"
        /\ gh[t].entry_cast # NoCast /\ gh[t].entry_live

\* C10: when disconnect has ended, by returning or by raising, the state is
\* in the no-connection form.
C10_DisconnectAlwaysResets ==
    \A t \in Threads :
        (pc[t] = "done" /\ rv[t].op = "disconnect") => NoConnection

\* C11: is_connected returns False whenever the probe of the handle raises,
\* and never raises itself; it returns False without probing whenever the
\* handle is absent or the connected flag is False.
C11_ProbeFailureIsFalse ==
    \A t \in Threads :
        (pc[t] = "done" /\ rv[t].op = "is_connected") =>
            /\ rv[t].ret \in {"True", "False"}
            /\ gh[t].probe = "raise" => rv[t].ret = "False"
            /\ (cast = NoCast \/ ~connected) =>
                   (rv[t].ret = "False" /\ gh[t].probe = "none")

\* C11 witness: the flag is True, the handle is present, the probe raised
\* and is_connected returned False.
C11_Witness ==
    \E t \in Threads :
        /\ pc[t] = "done" /\ rv[t] = [op |-> "is_connected", ret |-> "False"]
        /\ connected /\ cast # NoCast /\ gh[t].probe = "raise"

\* C12: get_cast returns the stored handle only when the probe made in that
\* call reported the connection up; in every other case it returns None.
C12_HandleOnlyWhenProbedUp ==
    \A t \in Threads :
        (pc[t] = "done" /\ rv[t].op = "get_cast") =>
            IF gh[t].probe = "up"
            THEN rv[t].ret = "handle" /\ pl[t].cast = cast /\ cast # NoCast
            ELSE rv[t].ret = "None" /\ pl[t].cast = NoCast

\* C12 witness: the flag is True and the handle present, the probe reported
\* the connection down, and get_cast returned None.
C12_Witness ==
    \E t \in Threads :
        /\ pc[t] = "done" /\ rv[t] = [op |-> "get_cast", ret |-> "None"]
        /\ connected /\ cast # NoCast /\ gh[t].probe = "down"

\* C13: when the first status read after the play command shows IDLE with
\* reason FINISHED, the call goes straight to its finally clause with the
\* result True: it has not waited for activation, makes no pass of the poll
\* loop, and returns True.
C13_InitialFinishedReturnsTrue ==
    /\ [][\A t \in Threads :
             (/\ pc[t] = "p196" /\ pc'[t] \notin {"p196", "p257"}
              /\ pl'[t].state = "IDLE" /\ pl'[t].idle_reason = "FINISHED") =>
                 /\ pc'[t] = "p260"
                 /\ pl'[t].result = "True"
                 /\ gh'[t].how = "initial_finished"]_vars
    /\ [](\A t \in Threads :
             gh[t].how = "initial_finished" =>
                 /\ pc[t] \in {"p260", "s140", "done"}
                 /\ ~gh[t].waited /\ pl[t].elapsed = 0
                 /\ pl[t].result = "True"
                 /\ pc[t] = "done" => rv[t].ret = "True")

\* C13 witness: the read at line 196 showed IDLE/FINISHED and the call is in
\* its finally clause with the result True, the play command sent once.
C13_Witness ==
    \E t \in Threads :
        /\ pc[t] = "p260" /\ gh[t].how = "initial_finished" /\ gh[t].plays = 1
        /\ pl[t].state = "IDLE" /\ pl[t].idle_reason = "FINISHED"
        /\ pl[t].result = "True"

\* C14: play_on_googlecast always ends by returning a boolean, never by
\* raising, whatever failed inside it, and that boolean is what the
\* executor hands back to play_audio's caller.
C14_NoExceptionEscapes ==
    \A t \in Threads :
        (pc[t] = "done" /\ arg[t].op = "play_on_googlecast") =>
            /\ rv[t].op = "play_on_googlecast"
            /\ rv[t].ret \in {"True", "False"}

\* C14 witness: a call in which something raised inside the try (here with
\* the connect made by the call having run a discovery) returned False.
C14_Witness ==
    \E t \in Threads :
        /\ pc[t] = "done" /\ gh[t].how = "exception" /\ gh[t].lookups = 1
        /\ rv[t] = [op |-> "play_on_googlecast", ret |-> "False"]

\* C15: play_on_macos_say returns True exactly when the utility exits with
\* status 0 and returns False, without raising, on a non-zero exit and when
\* the utility is missing.
C15_SayReturnsExitStatus ==
    \A t \in Threads :
        (pc[t] = "done" /\ arg[t].op = "play_on_macos_say") =>
            /\ rv[t].ret \in {"True", "False"}
            /\ rv[t].ret = "True" <=> gh[t].how = "exit0"

\* Thread t is in play_on_googlecast with a file that is missing or smaller
\* than the threshold.
BadFile(t) ==
    /\ arg[t].op = "play_on_googlecast"
    /\ ~arg[t].file.exists \/ arg[t].file.size < MinFileSize

\* C16: a play_on_googlecast call whose file is missing or under 100 bytes
\* never gets past the precondition: it makes no probe, no connect, starts
\* no server and sends no play command, returns False, and no step of it
\* changes the connection state or the working directory.
C16_PreconditionFailureTouchesNothing ==
    /\ [](\A t \in Threads :
             BadFile(t) =>
                 /\ pc[t] \in {"p150", "p257", "p260", "done"}
                 /\ gh[t].cached = "unknown" /\ gh[t].connects = 0
                 /\ gh[t].lookups = 0 /\ gh[t].plays = 0 /\ gh[t].stops = 0
                 /\ pl[t].server = "None" /\ pl[t].httpd = "none"
                 /\ pc[t] \in {"p260", "done"} => pl[t].result = "False"
                 /\ pc[t] = "done" => rv[t].ret = "False")
    /\ [][\A t \in Threads :
             BadFile(t) => (conn' = conn /\ cwd' = cwd)]_vars

\* C16 witness: a call with a 50-byte file has returned False while the
\* connection to a device stands as it stood at the call.
C16_Witness ==
    \E t \in Threads :
        /\ pc[t] = "done" /\ BadFile(t) /\ arg[t].file.exists
        /\ gh[t].how = "precondition" /\ rv[t].ret = "False"
        /\ connected /\ cast # NoCast /\ cast = gh[t].entry_cast

\* C17: play_on_googlecast calls connect exactly when the cached handle is
\* not usable for the request (no live probe result, or another device id);
\* with a usable cached handle the call makes no connect and no discovery.
C17_ConnectIffCacheUnusable ==
    \A t \in Threads :
        arg[t].op = "play_on_googlecast" =>
            /\ gh[t].cached = "unknown" =>
                   (gh[t].connects = 0 /\ gh[t].lookups = 0)
            /\ gh[t].cached = "usable" =>
                   (gh[t].connects = 0 /\ gh[t].lookups = 0
                    /\ pl[t].used_cached)
            /\ gh[t].cached = "unusable" =>
                   (gh[t].connects = 1 /\ ~pl[t].used_cached)

\* C17 witness: connected to dev-1 with the probe up, a call for dev-2 has
\* called connect and run its discovery.
C17_Witness ==
    \E t \in Threads :
        /\ arg[t].op = "play_on_googlecast" /\ arg[t].dev.id = "dev-2"
        /\ gh[t].entry_device = "dev-1" /\ gh[t].entry_live
        /\ gh[t].cached = "unusable" /\ gh[t].connects = 1
        /\ gh[t].lookups = 1

\* C18: within one call the server has been started before the play command
\* is sent, the server is stopped only once the result is determined, and
\* a call that started the server has stopped it when it returns.
C18_StartPlayStopOrder ==
    \A t \in Threads :
        arg[t].op = "play_on_googlecast" =>
            /\ gh[t].plays > 0 =>
                   (pl[t].server = "AudioServer" /\ pl[t].httpd # "none")
            /\ gh[t].stops > 0 =>
                   (pl[t].result \in {"True", "False"}
                    /\ pc[t] \in {"s140", "done"})
            /\ (pc[t] = "done" /\ pl[t].server # "None") => gh[t].stops = 1

\* C18 witness: a call that failed in the poll loop, after the server was
\* started and the play command sent, has stopped the server and returned.
C18_Witness ==
    \E t \in Threads :
        /\ pc[t] = "done" /\ gh[t].how = "poll_error"
        /\ gh[t].plays = 1 /\ gh[t].stops = 1 /\ rv[t].ret = "False"

\* C19: when play_on_googlecast has returned, the working directory is the
\* one the call was entered with.
C19_WorkingDirectoryRestored ==
    \A t \in Threads :
        (pc[t] = "done" /\ arg[t].op = "play_on_googlecast") =>
            cwd = gh[t].entry_cwd

\* C20: no step of the finally clause changes the result determined before
\* it, whether the shutdown or the restoring chdir raises or not, and the
\* call returns that result.
C20_TeardownKeepsResult ==
    /\ [][\A t \in Threads :
             pc[t] \in {"p260", "s140"} =>
                 pl'[t].result = pl[t].result]_vars
    /\ [](\A t \in Threads :
             (pc[t] = "done" /\ arg[t].op = "play_on_googlecast") =>
                 /\ pl[t].result \in {"True", "False"}
                 /\ rv[t] = [op |-> "play_on_googlecast",
                             ret |-> pl[t].result])

\* C20 witness: the shutdown raised (the server still serves) in a call
\* whose result was True, and the call returned True.
C20_Witness ==
    \E t \in Threads :
        /\ pc[t] = "done" /\ pl[t].httpd = "serving"
        /\ pl[t].result = "True" /\ rv[t].ret = "True"

\* The ways a pass of the poll loop ends the call on the observation it made.
PollEnds == {"poll_finished", "poll_error", "poll_grace"}

\* C22: a pass of the poll loop that observes IDLE with reason FINISHED, or
\* IDLE with any reason after a PLAYING observation of the same call, ends
\* the call with True: no pass sleeps on such an observation, and the call
\* that ends on one has the result True.
C22_SuccessTakesPriority ==
    \A t \in Threads :
        /\ ~gh[t].success_passed
        /\ (/\ gh[t].how \in PollEnds /\ pl[t].state = "IDLE"
            /\ pl[t].played \/ pl[t].idle_reason = "FINISHED") =>
               /\ pl[t].result = "True"
               /\ gh[t].how = "poll_finished"

\* C22 witness: two passes slept, a PLAYING observation among them, and the
\* third observed IDLE/FINISHED: the result is True.
C22_Witness ==
    \E t \in Threads :
        /\ pc[t] = "p260" /\ gh[t].how = "poll_finished"
        /\ pl[t].played /\ pl[t].elapsed = 2 * PollSleepTenths
        /\ pl[t].state = "IDLE" /\ pl[t].idle_reason = "FINISHED"
        /\ pl[t].result = "True"

\* The order of the labels along a play_on_googlecast call; the lines of
\* disconnect take the place of the line of connect that called it.
CallOrder ==
    <<"p150", "p160", "c39", "c43", "c44", "c48", "c56", "c58", "c61", "c64",
      "c69", "c76", "c77", "p167", "p169", "p175", "s124", "s127", "p178",
      "p190", "p196", "p206", "p210", "p217", "p235", "p257", "p260", "s140",
      "done">>

Position(l) == CHOOSE i \in 1..Len(CallOrder) : CallOrder[i] = l

\* The most passes of the poll loop that sleep.
MaxPasses == (PollTimeout * 10) \div PollSleepTenths

RankStride == MaxPasses * PollSleepTenths + Cardinality(DisconnectLabels) + 1

\* A measure of how far a play_on_googlecast call has come.
Rank(t) ==
    IF pc[t] \in DisconnectLabels
    THEN Position(Head(stk[t])) * RankStride
         + (CASE pc[t] = "d82" -> 1 [] pc[t] = "d85" -> 2 [] OTHER -> 3)
    ELSE Position(pc[t]) * RankStride
         + (IF pc[t] = "p235" THEN pl[t].elapsed ELSE 0)

\* C23: every step of a play_on_googlecast call that has not returned takes
\* the call strictly further along a bounded measure (the position in the
\* code, and within the poll loop the time slept), and the poll loop sleeps
\* at most MaxPasses times: whatever the device reports, the call returns
\* after a bounded number of steps.
C23_EveryStepAdvances ==
    /\ [][\A t \in Threads :
             (arg[t].op = "play_on_googlecast" /\ pc[t] # "done") =>
                 /\ arg'[t] = arg[t]
                 /\ Rank(t)' > Rank(t)]_vars
    /\ [](\A t \in Threads :
             arg[t].op = "play_on_googlecast" =>
                 /\ pl[t].elapsed <= MaxPasses * PollSleepTenths
                 /\ pc[t] \in DisconnectLabels => stk[t] # <<>>)

\* C23 witness: the device reported nothing that ends the call, the poll
\* loop slept MaxPasses times and ended by its own timeout.
C23_Witness ==
    \E t \in Threads :
        /\ pc[t] = "p260" /\ gh[t].how = "timeout"
        /\ pl[t].elapsed = MaxPasses * PollSleepTenths

\* C26: the play command is sent at most once per call; a call that ended
\* on the read made after a failed activation wait had sent it once, found
\* IDLE/FINISHED and has the result True; and no IDLE/FINISHED read before
\* line 217 lets the call go on to line 217.
C26_PlaySentAtMostOnce ==
    \A t \in Threads :
        /\ gh[t].plays <= 1
        /\ gh[t].how = "wait_finished" =>
               /\ gh[t].waited /\ gh[t].plays = 1
               /\ pc[t] = "p260" =>
                      (pl[t].state = "IDLE" /\ pl[t].idle_reason = "FINISHED")
               /\ pl[t].result = "True"
        /\ pc[t] = "p217" =>
               ~(pl[t].state = "IDLE" /\ pl[t].idle_reason = "FINISHED")

\* C26 witness: the activation wait failed, the read after it showed
\* IDLE/FINISHED, and the call ends with True having sent play once.
C26_Witness ==
    \E t \in Threads :
        /\ pc[t] = "p260" /\ gh[t].how = "wait_finished" /\ gh[t].waited
        /\ gh[t].plays = 1 /\ pl[t].result = "True"

\* A plain IDLE: no idle reason, or the reason INTERRUPTED.
PlainIdle(t) ==
    pl[t].state = "IDLE" /\ pl[t].idle_reason \in {"None", "INTERRUPTED"}

\* C27: a pass of the poll loop that observes a plain IDLE before any
\* PLAYING observation ends the call only when more than five seconds have
\* gone since the loop began, and then with True; no pass later than five
\* seconds sleeps on such an observation.
C27_GraceThenTrue ==
    \A t \in Threads :
        /\ ~gh[t].grace_passed
        /\ (gh[t].how \in PollEnds /\ PlainIdle(t) /\ ~pl[t].played) =>
               /\ pl[t].elapsed > GracePeriod * 10
               /\ pl[t].result = "True"
               /\ gh[t].how = "poll_grace"

\* C27 witness: the passes up to five seconds slept, and the first pass
\* after them observed IDLE/INTERRUPTED and ended the call with True.
C27_Witness ==
    \E t \in Threads :
        /\ pc[t] = "p260" /\ gh[t].how = "poll_grace" /\ ~pl[t].played
        /\ pl[t].elapsed = GracePeriod * 10 + 1
        /\ pl[t].idle_reason = "INTERRUPTED" /\ pl[t].result = "True"

\* C28 as stated: once the play command is sent, a settle delay was taken
\* before it and after it exactly when the connection was made in this
\* call, and on neither side when the cached connection was reused.
C28_DelayOnBothSidesIffFresh ==
    \A t \in Threads :
        gh[t].plays > 0 =>
            /\ gh[t].settle_before = ~pl[t].used_cached
            /\ gh[t].settle_after = ~pl[t].used_cached

\* C28 as amended: the second of sleep before the play command is taken
\* exactly when the connection was made in this call; the half second of
\* sleep after the play command is taken in both cases.
C28_DelayBeforeIffFresh ==
    \A t \in Threads :
        /\ pc[t] \in {"p190", "p196"} =>
               gh[t].settle_before = ~pl[t].used_cached
        /\ gh[t].plays > 0 =>
               /\ gh[t].settle_before = ~pl[t].used_cached
               /\ gh[t].settle_after

\* C28 witness: a call that reused the cached connection has sent the play
\* command with no sleep before it and the half second after it.
C28_Witness ==
    \E t \in Threads :
        /\ pc[t] = "p196" /\ pl[t].used_cached /\ gh[t].plays = 1
        /\ ~gh[t].settle_before /\ gh[t].settle_after

\* C30: a play_on_googlecast call has the result True, or has returned
\* True, only after it sent the play command, on a handle it got from a
\* probe that reported the connection up while the stored device id was the
\* requested one.
C30_TrueOnlyAfterVerifiedPlay ==
    \A t \in Threads :
        (/\ arg[t].op = "play_on_googlecast"
         /\ \/ pl[t].result = "True"
            \/ pc[t] = "done" /\ rv[t].ret = "True") =>
            /\ gh[t].plays = 1
            /\ gh[t].verified
            /\ pl[t].cast # NoCast

\* C30 witness: a call that made its own connection, with a discovery, has
\* returned True.
C30_Witness ==
    \E t \in Threads :
        /\ pc[t] = "done" /\ rv[t] = [op |-> "play_on_googlecast", ret |-> "True"]
        /\ gh[t].connects = 1 /\ gh[t].lookups = 1 /\ gh[t].verified

\* C29: the backend run for a play_audio call is fixed by the device type:
\* for a MACOS_SAY device only play_on_macos_say runs (no probe, no connect,
\* no discovery, no media server, no play command, the connection state and
\* the working directory as they were), for a GOOGLE_CAST device only
\* play_on_googlecast, and what is handed back is that backend's result.
C29_BackendByDeviceType ==
    \A t \in Threads :
        /\ arg[t].op \in {"play_on_macos_say", "play_on_googlecast"} =>
               /\ arg[t].dev.device_type = MACOS_SAY <=>
                      arg[t].op = "play_on_macos_say"
               /\ arg[t].dev.device_type = GOOGLE_CAST <=>
                      arg[t].op = "play_on_googlecast"
               /\ pc[t] = "done" => rv[t].op = arg[t].op
        /\ arg[t].op = "play_on_macos_say" =>
               /\ pc[t] = "done" /\ stk[t] = <<>> /\ pl[t] = PlayLocals0
               /\ gh[t].probe = "none" /\ gh[t].cached = "unknown"
               /\ gh[t].connects = 0 /\ gh[t].lookups = 0
               /\ gh[t].plays = 0 /\ gh[t].stops = 0
               /\ cast = gh[t].entry_cast /\ device_id = gh[t].entry_device
               /\ (cast \in live) = gh[t].entry_live /\ cwd = gh[t].entry_cwd
               /\ rv[t].ret = "True" <=> gh[t].how = "exit0"
        /\ (arg[t].op = "play_on_googlecast" /\ pc[t] = "done") =>
               rv[t].ret = pl[t].result

\* C29 witness: play_audio for the local device, called while connected to
\* a cast device, has run afplay and returned True.
C29_Witness ==
    \E t \in Threads :
        /\ pc[t] = "done" /\ arg[t].dev.device_type = MACOS_SAY
        /\ rv[t] = [op |-> "play_on_macos_say", ret |-> "True"]
        /\ connected /\ cast # NoCast

\* C21: a discovery always returns a list and never raises; when the scan
\* itself raised the list holds no cast device; and the handle and the
\* device id of cast_connection, and the liveness of the handle, are after
\* the discovery what they were before it.
C21_DiscoveryNeverRaises ==
    \A t \in Threads :
        (pc[t] = "done" /\ arg[t].op = "discover_all_devices") =>
            /\ rv[t] = [op |-> "discover_all_devices", ret |-> "list"]
            /\ gh[t].how = "scan_raises" =>
                   \A d \in gh[t].devices : d.device_type # GOOGLE_CAST
            /\ cast = gh[t].entry_cast /\ device_id = gh[t].entry_device
            /\ (cast \in live) = gh[t].entry_live
            /\ cwd = gh[t].entry_cwd

\* C21 witness: on a macOS host, connected to a cast device, the scan raised
\* and the discovery returned the local device alone.
C21_Witness ==
    \E t \in Threads :
        /\ pc[t] = "done" /\ rv[t].op = "discover_all_devices"
        /\ gh[t].how = "scan_raises" /\ gh[t].devices = {get_macos_say_device}
        /\ connected /\ cast # NoCast

\* C24: when handle_voice, handle_audio or handle_text has ended, by
\* returning or by raising, no temporary file is left on the disk.
C24_NoTempFileLeft ==
    \A t \in Threads :
        (pc[t] = "done" /\ arg[t].op \in Handlers) => bot.tmp = {}

\* C25: every selection, of either device type and with or without an
\* address, is what from_dict makes of its to_dict; the file a save has
\* written holds the selection, and a start of the process that loads it
\* has the selection that was saved.
C25_SerializationRoundTrips ==
    /\ bot.selected # NoDeviceRecord =>
           /\ bot.selected \in DeviceRecords
           /\ from_dict(to_dict(bot.selected)) = bot.selected
    /\ bot.synced = "saved" =>
           (bot.cfile.exists /\ bot.selected = bot.saved)
    /\ bot.synced = "loaded" => bot.selected = bot.saved

\* C25 witness: the local device, which has no address, was selected and
\* saved, and the process started again has loaded that selection.
C25_Witness ==
    /\ bot.synced = "loaded"
    /\ bot.selected.device_type = MACOS_SAY
    /\ bot.selected.address = "None"
    /\ bot.saved = bot.selected

\* C34: no step of a connect called with a device that is not a Google Cast
\* one changes the handle, the browser, the flag, the device id or the
\* liveness of a handle; the call runs no discovery and returns False.
C34_NonCastConnectChangesNothing ==
    /\ [][\A t \in Threads :
             (arg[t].op = "connect" /\ arg[t].dev.device_type # GOOGLE_CAST) =>
                 conn' = conn]_vars
    /\ [](\A t \in Threads :
             (arg[t].op = "connect" /\ arg[t].dev.device_type # GOOGLE_CAST) =>
                 /\ pc[t] \in {"c39", "done"}
                 /\ gh[t].lookups = 0
                 /\ cast = gh[t].entry_cast /\ device_id = gh[t].entry_device
                 /\ pc[t] = "done" =>
                        rv[t] = [op |-> "connect", ret |-> "False"])

\* C34 witness: connect for the local device has returned False while the
\* live connection to dev-1 stands.
C34_Witness ==
    \E t \in Threads :
        /\ pc[t] = "done" /\ rv[t] = [op |-> "connect", ret |-> "False"]
        /\ arg[t].dev.device_type = MACOS_SAY
        /\ connected /\ device_id = "dev-1" /\ cast \in live

\* The discovery of thread t got a browser from get_chromecasts and its
\* stop_discovery raised (utils.py line 41).
ScanBrowserLeft(t) ==
    rv[t].op = "discover_all_devices" /\ gh[t].how = "stop_raises"

\* C35: when connect or disconnect has ended, by returning or by raising,
\* cast_connection.browser is absent; and when a discovery has returned,
\* the browser it got has been stopped.
C35_NoBrowserOutlivesOperation ==
    \A t \in Threads :
        pc[t] = "done" =>
            /\ rv[t].op \in {"connect", "disconnect"} => browser = "None"
            /\ ~ScanBrowserLeft(t)

\* C31: once two play_on_googlecast calls of two worker threads have both
\* returned, each having made the chdir that restores the directory it
\* found, the working directory is the home directory the first of them
\* was entered in, however their steps were interleaved.
C31_OverlappingPlaysRestoreDirectory ==
    (\A t \in Threads :
        /\ pc[t] = "done" /\ rv[t].op = "play_on_googlecast"
        /\ gh[t].restored) =>
        cwd = HomeDir

\* C32: an update whose user is not in ALLOWED_USERS, or that has no user,
\* makes every handler return at once: the step that hands it the update
\* changes neither the selection, the configuration file, the stored scan
\* nor the connection, and the handler ends having sent no message, run no
\* scan, called no connect and played nothing.
C32_UnauthorizedUpdateDoesNothing ==
    /\ [][\A t \in Threads :
            (arg'[t].op \in BotHandlers /\ arg'[t].user \notin ALLOWED_USERS)
                => (bot' = bot /\ conn' = conn /\ cwd' = cwd)]_vars
    /\ [](\A t \in Threads :
            (arg[t].op \in BotHandlers /\ arg[t].user \notin ALLOWED_USERS)
                => /\ pc[t] = "done"
                   /\ gh[t].did = {}
                   /\ rv[t] = [op |-> arg[t].op, ret |-> "None"])

\* C32 witness: a stranger has pressed the button of a device that is in
\* the stored list and is not the selected one, and the handler has ended.
C32_Witness ==
    \E t \in Threads :
        /\ pc[t] = "done"
        /\ arg[t].op = "button_callback"
        /\ arg[t].user = Stranger
        /\ arg[t].data.prefix = "select_"
        /\ \E i \in DOMAIN bot.setup_devices :
               bot.setup_devices[i].id = arg[t].data.id
        /\ bot.selected.id # arg[t].data.id

\* C33: when handle_voice, handle_audio or handle_text has ended, by
\* returning or by raising, no animation task of its ProgressAnimation is
\* still running, and at no time are two of them running.
C33_AnimationStoppedOnEveryExit ==
    /\ \A t \in Threads :
          (pc[t] = "done" /\ arg[t].op \in Handlers) => bot.h.anim.tasks = {}
    /\ Cardinality(bot.h.anim.tasks) <= 1

====
